---- MODULE Spec2Model ----
(***************************************************************************)
(* Model of services/outside_network.c: the outgoing UDP query dispatcher. *)
(* One outside_network, its two port arrays, the rbtree of pending         *)
(* queries, the timers of the pendings and the user callbacks.  All        *)
(* handlers run in the single reactor thread; a handler that calls the     *)
(* user callback is split at the callback, so that the state the callback  *)
(* observes is a state of the model.                                       *)
(***************************************************************************)
EXTENDS Integers, Sequences, FiniteSets, TLC

(* ---- bounds of the model ---- *)
MaxQ == 2
MaxPorts == 2

(* ---- program constants ---- *)
MAX_ID_RETRY == 1000
INET_SIZE == 4
INET6_SIZE == 16
AF_INET == 2
AF_INET6 == 10
RAND_MAX == 2147483647
NULL == 0

NETEVENT_NOERROR == "NETEVENT_NOERROR"
NETEVENT_CLOSED == "NETEVENT_CLOSED"
NETEVENT_TIMEOUT == "NETEVENT_TIMEOUT"

VARIABLES outnet, tree, open, pend, cbs, sent, pc, call

vars == <<outnet, tree, open, pend, cbs, sent, pc, call>>

Queries == 1..MaxQ

(* ---- input domains ---- *)
(* destination and source addresses: sockaddr_storage plus its length *)
A4 == [addrlen |-> 16, addr |-> [family |-> AF_INET, port |-> 13568, bytes |-> <<192, 0, 2, 1>>]]
A4b == [addrlen |-> 16, addr |-> [family |-> AF_INET, port |-> 13568, bytes |-> <<192, 0, 2, 2>>]]
A6 == [addrlen |-> 28, addr |-> [family |-> AF_INET6, port |-> 13568,
        bytes |-> <<32, 1, 13, 184, 0, 0, 0, 0, 0, 0, 0, 0, 0, 0, 0, 1>>]]
DestAddrs == {A4, A6}
SrcAddrs == {A4, A4b, A6}

(* values returned by ub_random: R1 gives id 0x0001 and a low pool index, *)
(* R2 gives id 0x0102 and a high pool index                               *)
R1 == 256 + 7
R2 == 1073741824 + (258 * 256) + 9
RandVals == {R1, R2}
(* a random state: the value of the first draw and the value of the later ones *)
RandStates == [first : RandVals, rest : RandVals]

(* the first two bytes of a received datagram *)
WireIds == {<<0, 1>>, <<1, 2>>, <<1, 0>>}

(* interface names; colon is what str_is_ip6 looks for *)
If4 == [name |-> "192.0.2.9", colon |-> FALSE]
If6 == [name |-> "2001:db8::1", colon |-> TRUE]
IfLists == {<<>>, <<If4>>, <<If6, If4>>}

(* ---- pending_cmp ---- *)
(* the sign of memcmp over the first n bytes: decided by the first byte that differs *)
memcmp(b1, b2, n) ==
    LET diff == {i \in 1..n : b1[i] # b2[i]}
    IN  IF diff = {} THEN 0
        ELSE LET first == CHOOSE i \in diff : \A j \in diff : i <= j
             IN  IF b1[first] < b2[first] THEN -1 ELSE 1

(* the bytes of a sockaddr as stored: family, port, address; family and port *)
(* are the 16 bit values that the host reads, the low byte first in memory    *)
RawAddr(a) ==
    <<a.family % 256, a.family \div 256, a.port % 256, a.port \div 256>> \o a.bytes

(* pending_cmp that compares INET_SIZE bytes of an ip6 address *)
pending_cmp_ip6_short(p1, p2) ==
    IF p1.id < p2.id THEN -1
    ELSE IF p1.id > p2.id THEN 1
    ELSE IF p1.addrlen < p2.addrlen THEN -1
    ELSE IF p1.addrlen > p2.addrlen THEN 1
    ELSE IF p1.addr.family < p2.addr.family THEN -1
    ELSE IF p1.addr.family > p2.addr.family THEN 1
    ELSE IF p1.addr.family = AF_INET THEN
        IF p1.addr.port < p2.addr.port THEN -1
        ELSE IF p1.addr.port > p2.addr.port THEN 1
        ELSE memcmp(p1.addr.bytes, p2.addr.bytes, INET_SIZE)
    ELSE IF p1.addr.family = AF_INET6 THEN
        IF p1.addr.port < p2.addr.port THEN -1
        ELSE IF p1.addr.port > p2.addr.port THEN 1
        ELSE memcmp(p1.addr.bytes, p2.addr.bytes, INET_SIZE)
    ELSE memcmp(RawAddr(p1.addr), RawAddr(p2.addr), p1.addrlen)

(* pending_cmp that compares the id alone *)
pending_cmp_id(p1, p2) ==
    IF p1.id < p2.id THEN -1 ELSE IF p1.id > p2.id THEN 1 ELSE 0

pending_cmp(p1, p2) ==
    IF p1.id < p2.id THEN -1
    ELSE IF p1.id > p2.id THEN 1
    ELSE IF p1.addrlen < p2.addrlen THEN -1
    ELSE IF p1.addrlen > p2.addrlen THEN 1
    ELSE IF p1.addr.family < p2.addr.family THEN -1
    ELSE IF p1.addr.family > p2.addr.family THEN 1
    ELSE IF p1.addr.family = AF_INET THEN
        IF p1.addr.port < p2.addr.port THEN -1
        ELSE IF p1.addr.port > p2.addr.port THEN 1
        ELSE memcmp(p1.addr.bytes, p2.addr.bytes, INET_SIZE)
    ELSE IF p1.addr.family = AF_INET6 THEN
        IF p1.addr.port < p2.addr.port THEN -1
        ELSE IF p1.addr.port > p2.addr.port THEN 1
        ELSE memcmp(p1.addr.bytes, p2.addr.bytes, INET6_SIZE)
    ELSE memcmp(RawAddr(p1.addr), RawAddr(p2.addr), p1.addrlen)

(* ---- the rbtree of pendings: the set of the pendings linked in it ---- *)
KeyOf(pd, q) == [id |-> pd[q].id, addr |-> pd[q].addr, addrlen |-> pd[q].addrlen]

rbtree_search(t, pd, key) ==
    IF \E x \in t : pending_cmp(KeyOf(pd, x), key) = 0
    THEN CHOOSE x \in t : pending_cmp(KeyOf(pd, x), key) = 0
    ELSE NULL

(* rbtree_insert that links a node although an equal key is in the tree *)
rbtree_insert_always(t, pd, key) == TRUE

(* TRUE when the node was inserted: no node of the tree has an equal key *)
rbtree_insert(t, pd, key) == \A x \in t : pending_cmp(KeyOf(pd, x), key) # 0

(* rbtree_delete that leaves the node linked *)
rbtree_delete_nothing(t, pd, key) == t

rbtree_delete(t, pd, key) == t \ {rbtree_search(t, pd, key)}

(* ---- pending_delete ---- *)
(* pending_delete that leaves the timer with the reactor *)
timer_kept(tm) == tm

(* comm_timer_delete when the pending has a timer *)
timer_deleted(tm) == IF tm # "none" THEN "deleted" ELSE tm

(* pending_delete that calls rbtree_delete also when it is given no outnet *)
pending_delete_always_unlink(t, pd, has_outnet, p, how) ==
    IF p = NULL THEN [tree |-> t, pend |-> pd]
    ELSE [tree |-> rbtree_delete(t, pd, KeyOf(pd, p)),
          pend |-> [pd EXCEPT ![p] = [@ EXCEPT !.st = "freed", !.end = how,
                                                !.timer = timer_deleted(@)]]]

(* pending_delete without the rbtree_delete *)
pending_delete_no_unlink(t, pd, has_outnet, p, how) ==
    IF p = NULL THEN [tree |-> t, pend |-> pd]
    ELSE [tree |-> t,
          pend |-> [pd EXCEPT ![p] = [@ EXCEPT !.st = "freed", !.end = how,
                                                !.timer = timer_deleted(@)]]]

pending_delete(t, pd, has_outnet, p, how) ==
    IF p = NULL THEN [tree |-> t, pend |-> pd]
    ELSE [tree |-> IF has_outnet THEN rbtree_delete(t, pd, KeyOf(pd, p)) ELSE t,
          pend |-> [pd EXCEPT ![p] = [@ EXCEPT !.st = "freed", !.end = how,
                                                !.timer = timer_deleted(@)]]]

(* ---- initial state ---- *)
(* a pending: st, end and id_tries tell where it is in its life and how it *)
(* ended, armed counts the calls of comm_timer_set for its timer           *)
NoPending == [st |-> "unused", end |-> "none", id |-> 0, addr |-> A4.addr, addrlen |-> 0,
              c |-> NULL, timer |-> "none", id_tries |-> 0, armed |-> 0]

NoOutnet == [st |-> "null", num_udp4 |-> 0, num_udp6 |-> 0,
             udp4_ports |-> <<>>, udp6_ports |-> <<>>]

Idle == [at |-> "idle", q |-> NULL]

(* ---- outside_network_create ---- *)
str_is_ip6(str) == str.colon

RECURSIVE calc_num46(_, _, _, _, _, _)
calc_num46(ifs, i, do_ip4, do_ip6, multiplier, n) ==
    IF Len(ifs) <= 0 THEN
        [num_ip4 |-> IF do_ip4 THEN multiplier ELSE 0,
         num_ip6 |-> IF do_ip6 THEN multiplier ELSE 0]
    ELSE IF i > Len(ifs) THEN n
    ELSE IF str_is_ip6(ifs[i]) THEN
        calc_num46(ifs, i + 1, do_ip4, do_ip6, multiplier,
            IF do_ip6 THEN [n EXCEPT !.num_ip6 = @ + multiplier] ELSE n)
    ELSE
        calc_num46(ifs, i + 1, do_ip4, do_ip6, multiplier,
            IF do_ip4 THEN [n EXCEPT !.num_ip4 = @ + multiplier] ELSE n)

(* what one attempt to open a port gives: a comm point, no file descriptor, *)
(* or a file descriptor for which no comm point could be made              *)
PortOutcomes == {"ok", "nofd", "nocomm"}

(* the file descriptor of attempt a, or -1 *)
open_udp_port_range(a, oc) == IF oc[a] = "nofd" THEN -1 ELSE a

(* the comm point made for fd; on failure NULL, and the fd is not kept *)
comm_point_create_udp(fd, oc) == IF oc[fd] = "ok" THEN fd ELSE NULL

(* r: coms the array, done the count, att the attempts made so far, *)
(* cps the comm points that exist                                   *)
RECURSIVE make_udp_range(_, _, _, _, _, _)
make_udp_range(base, num_ports, oc, i, done, r) ==
    IF i >= num_ports THEN [coms |-> r.coms, done |-> done, att |-> r.att, cps |-> r.cps]
    ELSE LET a == r.att + 1
             fd == open_udp_port_range(a, oc)
         IN  IF fd = -1
             THEN make_udp_range(base, num_ports, oc, i + 1, done, [r EXCEPT !.att = a])
             ELSE LET cp == comm_point_create_udp(fd, oc)
                  IN  make_udp_range(base, num_ports, oc, i + 1,
                          IF cp # NULL THEN done + 1 ELSE done,
                          [coms |-> [r.coms EXCEPT ![base + done] = cp],
                           att |-> a,
                           cps |-> IF cp # NULL THEN r.cps \cup {cp} ELSE r.cps])

(* the loop of outside_network_delete stopping one comm point early *)
ports_deleted_but_last(ports, num) == {ports[i] : i \in 0..(num - 2)} \ {NULL}

(* the comm points that the loop of outside_network_delete deletes *)
ports_deleted(ports, num) == {ports[i] : i \in 0..(num - 1)} \ {NULL}

(* the loop over the interfaces; s: both arrays, done_4, done_6, att, cps *)
RECURSIVE ifs_loop(_, _, _, _, _, _, _)
ifs_loop(ifs, k, num_ports, do_ip4, do_ip6, oc, s) ==
    IF k > Len(ifs) THEN s
    ELSE LET r6 == make_udp_range(s.done_6, num_ports, oc, 0, 0,
                       [coms |-> s.udp6_ports, att |-> s.att, cps |-> s.cps])
             s1 == IF str_is_ip6(ifs[k]) /\ do_ip6
                   THEN [s EXCEPT !.udp6_ports = r6.coms, !.done_6 = @ + r6.done,
                                  !.att = r6.att, !.cps = r6.cps]
                   ELSE s
             r4 == make_udp_range(s1.done_4, num_ports, oc, 0, 0,
                       [coms |-> s1.udp4_ports, att |-> s1.att, cps |-> s1.cps])
             s2 == IF ~str_is_ip6(ifs[k]) /\ do_ip4
                   THEN [s1 EXCEPT !.udp4_ports = r4.coms, !.done_4 = @ + r4.done,
                                   !.att = r4.att, !.cps = r4.cps]
                   ELSE s1
         IN  ifs_loop(ifs, k + 1, num_ports, do_ip4, do_ip6, oc, s2)

(* the check of the opened ports looking at ip4 alone *)
ports_missing_ip4(do_ip4, do_ip6, num_udp4, num_udp6, num_ports) ==
    do_ip4 /\ num_udp4 # num_ports

(* the check after the ports were opened, without interfaces *)
ports_missing(do_ip4, do_ip6, num_udp4, num_udp6, num_ports) ==
    \/ (do_ip4 /\ num_udp4 # num_ports)
    \/ (do_ip6 /\ num_udp6 # num_ports)

(* the check after the ports were opened, with interfaces *)
ifs_ports_missing(done_4, done_6, num_udp4, num_udp6) ==
    done_6 # num_udp6 \/ done_4 # num_udp4

(* the result of outside_network_create: ret the outnet or NULL, and the *)
(* comm points that are left open                                        *)
outside_network_create(num_ports, ifs, do_ip4, do_ip6, mem, oc) ==
    LET n == calc_num46(ifs, 1, do_ip4, do_ip6, num_ports, [num_ip4 |-> 0, num_ip6 |-> 0])
        arr4 == [i \in 0..n.num_ip4 |-> NULL]
        arr6 == [i \in 0..n.num_ip6 |-> NULL]
        failed(cps, p4, n4, p6, n6) ==
            [ret |-> NoOutnet, made |-> cps,
             open |-> cps \ (ports_deleted(p4, n4) \cup ports_deleted(p6, n6))]
    IN  IF mem = "nomem_outnet" THEN [ret |-> NoOutnet, made |-> {}, open |-> {}]
        ELSE IF mem = "nomem_parts" THEN failed({}, arr4, n.num_ip4, arr6, n.num_ip6)
        ELSE IF Len(ifs) = 0 THEN
            LET r6 == IF do_ip6
                      THEN make_udp_range(0, num_ports, oc, 0, 0,
                               [coms |-> arr6, att |-> 0, cps |-> {}])
                      ELSE [coms |-> arr6, done |-> n.num_ip6, att |-> 0, cps |-> {}]
                r4 == IF do_ip4
                      THEN make_udp_range(0, num_ports, oc, 0, 0,
                               [coms |-> arr4, att |-> r6.att, cps |-> r6.cps])
                      ELSE [coms |-> arr4, done |-> n.num_ip4, att |-> r6.att, cps |-> r6.cps]
            IN  IF ports_missing(do_ip4, do_ip6, r4.done, r6.done, num_ports)
                THEN failed(r4.cps, r4.coms, r4.done, r6.coms, r6.done)
                ELSE [ret |-> [st |-> "live", num_udp4 |-> r4.done, num_udp6 |-> r6.done,
                               udp4_ports |-> r4.coms, udp6_ports |-> r6.coms],
                      made |-> r4.cps, open |-> r4.cps]
        ELSE
            LET s == ifs_loop(ifs, 1, num_ports, do_ip4, do_ip6, oc,
                         [udp4_ports |-> arr4, udp6_ports |-> arr6,
                          done_4 |-> 0, done_6 |-> 0, att |-> 0, cps |-> {}])
            IN  IF ifs_ports_missing(s.done_4, s.done_6, n.num_ip4, n.num_ip6)
                THEN failed(s.cps, s.udp4_ports, n.num_ip4, s.udp6_ports, n.num_ip6)
                ELSE [ret |-> [st |-> "live", num_udp4 |-> s.done_4, num_udp6 |-> s.done_6,
                               udp4_ports |-> s.udp4_ports, udp6_ports |-> s.udp6_ports],
                      made |-> s.cps, open |-> s.cps]

(* the requested number of ports of a family *)
Requested(num_ports, ifs, enabled, ip6) ==
    IF ~enabled THEN 0
    ELSE IF ifs = <<>> THEN num_ports
    ELSE num_ports * Cardinality({k \in 1..Len(ifs) : ifs[k].colon = ip6})

Create(num_ports, ifs, do_ip4, do_ip6, mem, oc) ==
    /\ pc.at = "idle"
    /\ outnet.st = "null"
    /\ LET r == outside_network_create(num_ports, ifs, do_ip4, do_ip6, mem, oc)
       IN  /\ outnet' = r.ret
           /\ open' = r.open
           /\ call' = [op |-> "create", num_ports |-> num_ports, ifs |-> ifs,
                       do_ip4 |-> do_ip4, do_ip6 |-> do_ip6, mem |-> mem,
                       opened |-> Cardinality(r.made),
                       ret |-> r.ret.st]
    /\ UNCHANGED <<tree, pend, cbs, sent, pc>>

CreateInputs ==
    \E num_ports \in 0..MaxPorts, ifs \in IfLists, do_ip4 \in BOOLEAN, do_ip6 \in BOOLEAN,
       mem \in {"ok", "nomem_outnet", "nomem_parts"} :
        \E oc \in [1..(Requested(num_ports, ifs, do_ip4, FALSE)
                       + Requested(num_ports, ifs, do_ip6, TRUE)) -> PortOutcomes] :
            Create(num_ports, ifs, do_ip4, do_ip6, mem, oc)

(* ---- initial states ---- *)
NoQueries ==
    /\ tree = {}
    /\ pend = [q \in Queries |-> NoPending]
    /\ cbs = [q \in Queries |-> <<>>]
    /\ sent = [q \in Queries |-> <<>>]
    /\ pc = Idle
    /\ call = [op |-> "init"]

(* no outside network was made yet *)
InitCreate ==
    /\ outnet = NoOutnet
    /\ open = {}
    /\ NoQueries

(* outside_network_create has returned: with MaxPorts ports of ip4 only, with *)
(* one port of ip4 and one of ip6, or with NULL                               *)
Init ==
    /\ \E made \in {outside_network_create(MaxPorts, <<>>, TRUE, FALSE, "ok",
                                           [a \in 1..MaxPorts |-> "ok"]),
                     outside_network_create(1, <<>>, TRUE, TRUE, "ok",
                                           [a \in 1..2 |-> "ok"]),
                     outside_network_create(MaxPorts, <<>>, TRUE, FALSE, "nomem_outnet",
                                           [a \in 1..MaxPorts |-> "ok"])} :
           /\ outnet = made.ret
           /\ open = made.open
    /\ NoQueries

(* ---- new_pending ---- *)
(* the n-th value that ub_random returns from the random state rnd *)
ub_random(rnd, n) == IF n = 1 THEN rnd.first ELSE rnd.rest

(* ((unsigned)ub_random(rnd)>>8) & 0xffff *)
random_id(r) == (r \div 256) % 65536

(* the first two bytes of the packet after LDNS_ID_SET *)
LDNS_ID_SET(id) == <<(id \div 256) % 256, id % 256>>

(* the id in the first two bytes of a packet *)
LDNS_ID_WIRE(pkt) == (pkt[1] * 256) + pkt[2]

(* the test of id_tries one retry late *)
retries_used_late(id_tries) == id_tries = MAX_ID_RETRY + 1

(* id_tries == MAX_ID_RETRY *)
retries_used(id_tries) == id_tries = MAX_ID_RETRY

(* the body of the loop of new_pending without LDNS_ID_SET: the packet *)
(* keeps the id that collided                                         *)
insert_step_no_patch(t, pd, dst, rnd, s) ==
    IF s.res # "loop" THEN s
    ELSE IF rbtree_insert(t, pd, [id |-> s.id, addr |-> dst.addr, addrlen |-> dst.addrlen])
    THEN [s EXCEPT !.res = "inserted"]
    ELSE LET id == random_id(ub_random(rnd, s.draws + 1))
         IN  [id |-> id, pkt |-> s.pkt, id_tries |-> s.id_tries + 1,
              draws |-> s.draws + 1,
              res |-> IF retries_used(s.id_tries + 1) THEN "failed" ELSE "loop"]

(* one test of the while condition of new_pending and, when the insert *)
(* failed, one run of its body.  s: id, pkt, id_tries, draws, res      *)
insert_step(t, pd, dst, rnd, s) ==
    IF s.res # "loop" THEN s
    ELSE IF rbtree_insert(t, pd, [id |-> s.id, addr |-> dst.addr, addrlen |-> dst.addrlen])
    THEN [s EXCEPT !.res = "inserted"]
    ELSE LET id == random_id(ub_random(rnd, s.draws + 1))
         IN  [id |-> id, pkt |-> LDNS_ID_SET(id), id_tries |-> s.id_tries + 1,
              draws |-> s.draws + 1,
              res |-> IF retries_used(s.id_tries + 1) THEN "failed" ELSE "loop"]

(* n steps of the loop, one after the other; the halving only keeps the *)
(* nesting of the evaluation shallow                                    *)
RECURSIVE insert_loop(_, _, _, _, _, _)
insert_loop(t, pd, dst, rnd, s, n) ==
    IF s.res # "loop" \/ n = 0 THEN s
    ELSE IF n = 1 THEN insert_step(t, pd, dst, rnd, s)
    ELSE insert_loop(t, pd, dst, rnd,
             insert_loop(t, pd, dst, rnd, s, n \div 2), n - (n \div 2))

(* the result of new_pending when the allocations succeeded *)
new_pending(t, pd, dst, rnd) ==
    LET id == random_id(ub_random(rnd, 1))
    IN  insert_loop(t, pd, dst, rnd,
            [id |-> id, pkt |-> LDNS_ID_SET(id), id_tries |-> 0, draws |-> 1, res |-> "loop"],
            MAX_ID_RETRY + 1)

(* ---- select_port ---- *)
addr_is_ip6(addr) == addr.family = AF_INET6

(* (int)((double)r * (double)nummax / ((double)RAND_MAX + 1.0)), exact: *)
(* r = 256 h + l, and h * nummax stays below 2^31                       *)
precho(r, nummax) ==
    (((r \div 256) * nummax) + (((r % 256) * nummax) \div 256)) \div ((RAND_MAX \div 256) + 1)

clamp(chosen, nummax) ==
    IF chosen < 0 THEN 0 ELSE IF chosen >= nummax THEN nummax - 1 ELSE chosen

(* the comm point that select_port puts in pend->c; c0 is what was there *)
select_port(on, addr, c0, r) ==
    LET nummax == IF addr_is_ip6(addr) THEN on.num_udp6 ELSE on.num_udp4
        chosen == clamp(precho(r, nummax), nummax)
    IN  IF nummax = 0 THEN c0
        ELSE IF addr_is_ip6(addr) THEN on.udp6_ports[chosen]
        ELSE on.udp4_ports[chosen]

(* ---- pending_udp_query ---- *)
(* what comm_point_send_udp_msg can do: with a comm point it returns 1 or 0; *)
(* with the null pointer that select_port left, the behaviour is undefined   *)
SendOutcomes(c) == IF c = NULL THEN {"sent", "failed", "crash"} ELSE {"sent", "failed"}

Callback(c, status) == [c |-> c, status |-> status, reply_info |-> NULL]

(* pending_udp_query that sets the timer before it sends *)
after_send_armed_first(made, c, snd) ==
    [made EXCEPT !.c = c, !.timer = "set", !.armed = @ + 1]

(* the pending after comm_point_send_udp_msg: comm_timer_set is called when *)
(* the send returned 1                                                     *)
after_send(made, c, snd) ==
    IF snd = "sent" THEN [made EXCEPT !.c = c, !.timer = "set", !.armed = @ + 1]
    ELSE [made EXCEPT !.c = c]

pending_udp_query(q, dst, mem, rnd) ==
    /\ pc.at = "idle"
    /\ outnet.st = "live"
    /\ pend[q].st = "unused"
    /\ \A x \in Queries : x < q => pend[x].st # "unused"
    /\ IF mem # "ok" THEN
           (* new_pending returned NULL: no pending or no timer *)
           /\ pend' = [pend EXCEPT ![q] = [@ EXCEPT !.st = "none", !.end = "nomem"]]
           /\ cbs' = [cbs EXCEPT ![q] = Append(@, Callback(NULL, NETEVENT_CLOSED))]
           /\ pc' = [at |-> "query_cb", q |-> NULL]
           /\ UNCHANGED <<tree, sent>>
       ELSE
           LET np == new_pending(tree, pend, dst, rnd)
               made == [st |-> "live", end |-> "none", id |-> np.id, addr |-> dst.addr,
                        addrlen |-> dst.addrlen, c |-> NULL, timer |-> "off",
                        id_tries |-> np.id_tries, armed |-> 0]
           IN  IF np.res = "failed" THEN
                   (* pending_delete(NULL, pend) and NULL returned *)
                   /\ LET d == pending_delete(tree, [pend EXCEPT ![q] = made], FALSE, q,
                                              "abort")
                      IN  /\ tree' = d.tree
                          /\ pend' = d.pend
                   /\ cbs' = [cbs EXCEPT ![q] = Append(@, Callback(NULL, NETEVENT_CLOSED))]
                   /\ pc' = [at |-> "query_cb", q |-> NULL]
                   /\ UNCHANGED sent
               ELSE
                   LET c == select_port(outnet, dst.addr, made.c,
                                        ub_random(rnd, np.draws + 1))
                   IN  \E snd \in SendOutcomes(c) :
                       /\ tree' = tree \cup {q}
                       /\ pend' = [pend EXCEPT ![q] = after_send(made, c, snd)]
                       /\ IF snd = "sent" THEN
                              /\ sent' = [sent EXCEPT ![q] =
                                            Append(@, [c |-> c, pkt |-> np.pkt, to |-> dst])]
                              /\ pc' = Idle
                              /\ UNCHANGED cbs
                          ELSE IF snd = "failed" THEN
                              /\ cbs' = [cbs EXCEPT ![q] =
                                            Append(@, Callback(c, NETEVENT_CLOSED))]
                              /\ pc' = [at |-> "query_cb", q |-> q]
                              /\ UNCHANGED sent
                          ELSE
                              /\ pc' = [at |-> "crashed", q |-> q]
                              /\ UNCHANGED <<cbs, sent>>
    /\ UNCHANGED <<outnet, open, call>>

(* pending_udp_query that frees the pending without its outnet after the *)
(* callback with NETEVENT_CLOSED                                         *)
pending_udp_query_return_no_outnet ==
    /\ pc.at = "query_cb"
    /\ LET d == pending_delete(tree, pend, FALSE, pc.q, "closed")
       IN  /\ tree' = d.tree
           /\ pend' = d.pend
    /\ pc' = Idle
    /\ UNCHANGED <<outnet, open, cbs, sent, call>>

(* the callback with NETEVENT_CLOSED returns into pending_udp_query *)
pending_udp_query_return ==
    /\ pc.at = "query_cb"
    /\ LET d == pending_delete(tree, pend, TRUE, pc.q, "closed")
       IN  /\ tree' = d.tree
           /\ pend' = d.pend
    /\ pc' = Idle
    /\ UNCHANGED <<outnet, open, cbs, sent, call>>

(* ---- outnet_udp_cb ---- *)
(* what outnet_udp_cb reads and writes *)
Dispatcher ==
    [outnet |-> outnet, tree |-> tree, open |-> open, pend |-> pend, cbs |-> cbs, pc |-> pc]

(* outnet_udp_cb without the check of the comm point *)
wrong_port_unchecked(pc_c, c) == FALSE

(* the reply came in on another comm point than the query went out on *)
wrong_port(pc_c, c) == pc_c # c

(* outnet_udp_cb with comm_timer_disable ahead of the check of the comm point *)
udp_cb_disable_first(d, c, error, pkt, from) ==
    IF error # NETEVENT_NOERROR THEN [res |-> "error", d |-> d]
    ELSE LET key == [id |-> LDNS_ID_WIRE(pkt), addr |-> from.addr, addrlen |-> from.addrlen]
             p == rbtree_search(d.tree, d.pend, key)
         IN  IF p = NULL THEN [res |-> "unsolicited", d |-> d]
             ELSE IF wrong_port(d.pend[p].c, c)
             THEN [res |-> "wrong port", d |-> [d EXCEPT !.pend[p].timer = "off"]]
             ELSE [res |-> "reply",
                   d |-> [d EXCEPT !.pend[p].timer = "off",
                                   !.cbs[p] = Append(@, Callback(d.pend[p].c, NETEVENT_NOERROR)),
                                   !.pc = [at |-> "udp_cb", q |-> p]]]

(* outnet_udp_cb without comm_timer_disable before the callback *)
udp_cb_no_disable(d, c, error, pkt, from) ==
    IF error # NETEVENT_NOERROR THEN [res |-> "error", d |-> d]
    ELSE LET key == [id |-> LDNS_ID_WIRE(pkt), addr |-> from.addr, addrlen |-> from.addrlen]
             p == rbtree_search(d.tree, d.pend, key)
         IN  IF p = NULL THEN [res |-> "unsolicited", d |-> d]
             ELSE IF wrong_port(d.pend[p].c, c) THEN [res |-> "wrong port", d |-> d]
             ELSE [res |-> "reply",
                   d |-> [d EXCEPT !.cbs[p] = Append(@, Callback(d.pend[p].c, NETEVENT_NOERROR)),
                                   !.pc = [at |-> "udp_cb", q |-> p]]]

(* outnet_udp_cb up to and with the call of the user callback: res is the *)
(* branch taken, d the dispatcher it leaves                              *)
udp_cb(d, c, error, pkt, from) ==
    IF error # NETEVENT_NOERROR THEN [res |-> "error", d |-> d]
    ELSE LET key == [id |-> LDNS_ID_WIRE(pkt), addr |-> from.addr, addrlen |-> from.addrlen]
             p == rbtree_search(d.tree, d.pend, key)
         IN  IF p = NULL THEN [res |-> "unsolicited", d |-> d]
             ELSE IF wrong_port(d.pend[p].c, c) THEN [res |-> "wrong port", d |-> d]
             ELSE [res |-> "reply",
                   d |-> [d EXCEPT !.pend[p].timer = "off",
                                   !.cbs[p] = Append(@, Callback(d.pend[p].c, NETEVENT_NOERROR)),
                                   !.pc = [at |-> "udp_cb", q |-> p]]]

outnet_udp_cb(c, error, pkt, from) ==
    /\ pc.at = "idle"
    /\ outnet.st = "live"
    /\ c \in open
    /\ LET r == udp_cb(Dispatcher, c, error, pkt, from)
       IN  /\ outnet' = r.d.outnet
           /\ tree' = r.d.tree
           /\ open' = r.d.open
           /\ pend' = r.d.pend
           /\ cbs' = r.d.cbs
           /\ pc' = r.d.pc
    /\ UNCHANGED <<sent, call>>

(* the callback with NETEVENT_NOERROR returns into outnet_udp_cb *)
outnet_udp_cb_return ==
    /\ pc.at = "udp_cb"
    /\ LET d == pending_delete(tree, pend, TRUE, pc.q, "ok")
       IN  /\ tree' = d.tree
           /\ pend' = d.pend
    /\ pc' = Idle
    /\ UNCHANGED <<outnet, open, cbs, sent, call>>

(* pending_udp_timer_cb that unlinks the pending before it calls the callback *)
pending_udp_timer_cb_unlink_first(p) ==
    /\ pc.at = "idle"
    /\ pend[p].timer = "set"
    /\ pend' = [pend EXCEPT ![p] = [@ EXCEPT !.timer = "off"]]
    /\ tree' = tree \ {p}
    /\ cbs' = [cbs EXCEPT ![p] = Append(@, [c |-> pend[p].c, status |-> NETEVENT_TIMEOUT,
                                             reply_info |-> NULL])]
    /\ pc' = [at |-> "timer_cb", q |-> p]
    /\ UNCHANGED <<outnet, open, sent, call>>

(* ---- pending_udp_timer_cb ---- *)
(* the reactor runs the callback of a timer that is set; it is set once *)
pending_udp_timer_cb(p) ==
    /\ pc.at = "idle"
    /\ pend[p].timer = "set"
    /\ pend' = [pend EXCEPT ![p] = [@ EXCEPT !.timer = "off"]]
    /\ cbs' = [cbs EXCEPT ![p] = Append(@, Callback(pend[p].c, NETEVENT_TIMEOUT))]
    /\ pc' = [at |-> "timer_cb", q |-> p]
    /\ UNCHANGED <<outnet, tree, open, sent, call>>

(* the callback with NETEVENT_TIMEOUT returns into pending_udp_timer_cb *)
pending_udp_timer_cb_return ==
    /\ pc.at = "timer_cb"
    /\ LET d == pending_delete(tree, pend, TRUE, pc.q, "timeout")
       IN  /\ tree' = d.tree
           /\ pend' = d.pend
    /\ pc' = Idle
    /\ UNCHANGED <<outnet, open, cbs, sent, call>>

(* ---- pending_delete called by the user of the pending ---- *)
Cancel(p) ==
    /\ pc.at = "idle"
    /\ outnet.st = "live"
    /\ pend[p].st = "live"
    /\ LET d == pending_delete(tree, pend, TRUE, p, "cancel")
       IN  /\ tree' = d.tree
           /\ pend' = d.pend
    /\ UNCHANGED <<outnet, open, cbs, sent, pc, call>>

(* ---- outside_network_delete ---- *)
(* traverse_postorder with pending_node_del: pending_delete(NULL, pend) *)
(* on every node of the tree                                            *)
RECURSIVE traverse_postorder(_, _)
traverse_postorder(t, pd) ==
    IF t = {} THEN pd
    ELSE LET x == CHOOSE y \in t : TRUE
         IN  traverse_postorder(t \ {x}, pending_delete(t, pd, FALSE, x, "shutdown").pend)

outside_network_delete ==
    /\ pc.at = "idle"
    /\ outnet.st # "freed"
    /\ IF outnet.st = "null" THEN
           /\ call' = [op |-> "delete", outnet |-> "null"]
           /\ UNCHANGED <<outnet, tree, open, pend>>
       ELSE
           /\ pend' = traverse_postorder(tree, pend)
           /\ tree' = {}
           /\ open' = open \ (ports_deleted(outnet.udp4_ports, outnet.num_udp4)
                              \cup ports_deleted(outnet.udp6_ports, outnet.num_udp6))
           /\ outnet' = [NoOutnet EXCEPT !.st = "freed"]
           /\ call' = [op |-> "delete", outnet |-> "live"]
    /\ UNCHANGED <<cbs, sent, pc>>

QueryInputs ==
    \E q \in Queries, dst \in DestAddrs, mem \in {"ok", "nomem_pend", "nomem_timer"},
       rnd \in RandStates :
        pending_udp_query(q, dst, mem, rnd)

ReplyInputs ==
    \E c \in open :
        \/ \E pkt \in WireIds, from \in SrcAddrs :
               outnet_udp_cb(c, NETEVENT_NOERROR, pkt, from)
        \/ outnet_udp_cb(c, NETEVENT_CLOSED, <<0, 0>>, A4)

TimerInputs == \E p \in Queries : pending_udp_timer_cb(p)

CancelInputs == \E p \in Queries : Cancel(p)

Next ==
    \/ QueryInputs
    \/ pending_udp_query_return
    \/ ReplyInputs
    \/ outnet_udp_cb_return
    \/ TimerInputs
    \/ pending_udp_timer_cb_return
    \/ CancelInputs
    \/ outside_network_delete

Spec == Init /\ [][Next]_vars

(* the reactor runs the callback of every timer that stays set, and a user *)
(* callback returns to the handler that called it                         *)
Fairness ==
    /\ \A p \in Queries : WF_vars(pending_udp_timer_cb(p))
    /\ WF_vars(pending_udp_query_return)
    /\ WF_vars(outnet_udp_cb_return)
    /\ WF_vars(pending_udp_timer_cb_return)

SpecLive == Init /\ [][Next]_vars /\ Fairness

(* construction and shutdown alone *)
NextCreate ==
    \/ CreateInputs
    \/ outside_network_delete

SpecCreate == InitCreate /\ [][NextCreate]_vars

(* ---- pending_cmp on its own ---- *)
(* addresses for the keys: another port (1 as the host reads it, 256 on the *)
(* wire), an ip6 address that differs in its last byte, an ip4 address with *)
(* the length of an ip6 one, and addresses of a family that is neither      *)
A4p == [addrlen |-> 16, addr |-> [family |-> AF_INET, port |-> 1, bytes |-> <<192, 0, 2, 1>>]]
A4long == [addrlen |-> 28, addr |-> A4.addr]
A6b == [addrlen |-> 28, addr |-> [family |-> AF_INET6, port |-> 13568,
         bytes |-> <<32, 1, 13, 184, 0, 0, 0, 0, 0, 0, 0, 0, 0, 0, 0, 2>>]]
AX == [addrlen |-> 6, addr |-> [family |-> 1, port |-> 13568, bytes |-> <<7, 7>>]]
AXb == [addrlen |-> 6, addr |-> [family |-> 1, port |-> 13568, bytes |-> <<7, 8>>]]
AXp == [addrlen |-> 6, addr |-> [family |-> 1, port |-> 1, bytes |-> <<7, 7>>]]

CmpAddrs == {A4, A4b, A4p, A4long, A6, A6b, AX, AXb, AXp}
CmpKeys == {[id |-> id, addr |-> a.addr, addrlen |-> a.addrlen] :
               id \in {random_id(R1), random_id(R2)}, a \in CmpAddrs}

InitCmp ==
    /\ outnet = NoOutnet
    /\ open = {}
    /\ NoQueries

(* the rbtree compares k1 with k2, k2 with k1, k2 with k3 and k1 with k3; *)
(* pending_cmp keeps no state, so one comparison is made in a behaviour   *)
Compare(k1, k2, k3) ==
    /\ call = [op |-> "init"]
    /\ call' = [op |-> "pending_cmp", k1 |-> k1, k2 |-> k2, k3 |-> k3,
                r12 |-> pending_cmp(k1, k2), r21 |-> pending_cmp(k2, k1),
                r23 |-> pending_cmp(k2, k3), r13 |-> pending_cmp(k1, k3)]
    /\ UNCHANGED <<outnet, tree, open, pend, cbs, sent, pc>>

NextCmp == \E k1 \in CmpKeys, k2 \in CmpKeys, k3 \in CmpKeys : Compare(k1, k2, k3)

SpecCmp == InitCmp /\ [][NextCmp]_vars

(* ======================= the claims ======================= *)
(* two keys agree on id, address length, family, port and address bytes *)
SameKey(k1, k2) ==
    /\ k1.id = k2.id
    /\ k1.addrlen = k2.addrlen
    /\ k1.addr.family = k2.addr.family
    /\ k1.addr.port = k2.addr.port
    /\ k1.addr.bytes = k2.addr.bytes

(* the key of a datagram with first bytes pkt that came from from *)
DatagramKey(pkt, from) ==
    [id |-> (256 * pkt[1]) + pkt[2], addr |-> from.addr, addrlen |-> from.addrlen]

(* the statuses that the callback of query q was called with, in order *)
Statuses(q) == [i \in 1..Len(cbs[q]) |-> cbs[q][i].status]

(* outnet_udp_cb can run now *)
CanReceive == pc.at = "idle" /\ outnet.st = "live"

(* C1: the callback of a query is called at most once; a query that ended by *)
(* a reply, by its timer or by a failure was called exactly once, with that  *)
(* status; a query that was cancelled was never called, also not afterwards  *)
C1_CallbackOnce ==
    \A q \in Queries :
        /\ Len(cbs[q]) <= 1
        /\ pend[q].end = "ok" => Statuses(q) = <<NETEVENT_NOERROR>>
        /\ pend[q].end = "timeout" => Statuses(q) = <<NETEVENT_TIMEOUT>>
        /\ pend[q].end \in {"closed", "abort", "nomem"} => Statuses(q) = <<NETEVENT_CLOSED>>
        /\ pend[q].end = "cancel" => cbs[q] = <<>>

C1_Witness ==
    \E q1 \in Queries, q2 \in Queries :
        /\ pend[q1].end = "ok"
        /\ pend[q2].end = "cancel"

(* C2, as stated: while the callback of a reply or of a timeout runs, the *)
(* lookup of the key of its pending misses                                *)
C2_RemovedBeforeCallback ==
    pc.at \in {"udp_cb", "timer_cb"} =>
        rbtree_search(tree, pend, KeyOf(pend, pc.q)) = NULL

(* C2, amended: the callback of a reply or of a timeout is called first, and *)
(* while it runs the lookup of the key still finds the pending; the pending  *)
(* is out of the tree when the handler has returned                          *)
C2_RemovedAfterCallback ==
    /\ pc.at \in {"udp_cb", "timer_cb"} =>
           /\ rbtree_search(tree, pend, KeyOf(pend, pc.q)) = pc.q
           /\ Len(cbs[pc.q]) = 1
    /\ \A q \in Queries : pend[q].end \in {"ok", "timeout"} => q \notin tree

C2_Witness ==
    /\ pc.at = "timer_cb"
    /\ pc.q \in tree
    /\ \E q \in Queries : pend[q].end = "ok"

(* C3: a datagram whose key is the key of a pending of the tree, received on *)
(* another comm point than the one of the pending, is dropped: no callback,  *)
(* the pending stays in the tree and its timer stays set                     *)
C3_IdentityGate ==
    \A c \in open, pkt \in WireIds, from \in SrcAddrs, p \in tree :
        (/\ CanReceive
         /\ SameKey(KeyOf(pend, p), DatagramKey(pkt, from))
         /\ pend[p].c # c)
        => LET r == udp_cb(Dispatcher, c, NETEVENT_NOERROR, pkt, from)
           IN  /\ r.d.cbs = cbs
               /\ r.d.pc = pc
               /\ p \in r.d.tree
               /\ r.d.pend[p].timer = "set"
               /\ r.d = Dispatcher

C3_Witness ==
    /\ CanReceive
    /\ \E p \in tree, c \in open :
           /\ pend[p].c \in open \ {c}
           /\ udp_cb(Dispatcher, c, NETEVENT_NOERROR, LDNS_ID_SET(pend[p].id),
                     [addr |-> pend[p].addr, addrlen |-> pend[p].addrlen]).res = "wrong port"

C5_UnsolicitedDrop ==
    \A c \in open, pkt \in WireIds, from \in SrcAddrs :
        (/\ CanReceive
         /\ \A p \in tree : ~SameKey(KeyOf(pend, p), DatagramKey(pkt, from)))
        => LET r == udp_cb(Dispatcher, c, NETEVENT_NOERROR, pkt, from)
           IN  /\ r.res = "unsolicited"
               /\ r.d = Dispatcher

C5_Witness ==
    /\ CanReceive
    /\ tree # {}
    /\ \E c \in open, pkt \in WireIds, from \in SrcAddrs, p \in tree :
           /\ pend[p].c = c
           /\ pend[p].id = DatagramKey(pkt, from).id
           /\ pend[p].addr # from.addr
           /\ udp_cb(Dispatcher, c, NETEVENT_NOERROR, pkt, from).res = "unsolicited"

(* C6: no two pendings of the tree have the same key *)
C6_UniqueKeys ==
    \A p1 \in tree, p2 \in tree :
        p1 # p2 => ~SameKey(KeyOf(pend, p1), KeyOf(pend, p2))

C6_Witness ==
    \E p1 \in tree, p2 \in tree :
        /\ p1 < p2
        /\ pend[p1].addr = pend[p2].addr
        /\ pend[p1].id # pend[p2].id
        /\ pend[p2].id_tries = 1

C8_Shutdown ==
    /\ outnet.st = "freed" =>
           /\ tree = {}
           /\ open = {}
           /\ \A q \in Queries :
                  /\ pend[q].st # "live"
                  /\ pend[q].timer \in {"none", "deleted"}
                  /\ pend[q].end = "shutdown" => cbs[q] = <<>>
    /\ call = [op |-> "delete", outnet |-> "null"] =>
           /\ outnet = NoOutnet
           /\ tree = {}
           /\ open = {}
           /\ \A q \in Queries : pend[q] = NoPending /\ cbs[q] = <<>>

C8_Witness ==
    /\ outnet.st = "freed"
    /\ Cardinality({q \in Queries : pend[q].end = "shutdown"}) >= 2

(* C9, as stated: a query that was given up after MAX_ID_RETRY new ids is *)
(* dropped without a call of its callback and without a packet sent       *)
C9_ExhaustionSilent ==
    \A q \in Queries :
        pend[q].end = "abort" => (cbs[q] = <<>> /\ sent[q] = <<>>)

(* C9, amended: a query is given up exactly when MAX_ID_RETRY new ids were *)
(* made; its pending is freed with its timer, was never in the tree,       *)
(* nothing is sent, and its callback is called once with NETEVENT_CLOSED   *)
(* and no comm point                                                       *)
C9_ExhaustionClosed ==
    \A q \in Queries :
        (pend[q].end = "abort" \/ pend[q].id_tries >= MAX_ID_RETRY) =>
            /\ pend[q].end = "abort"
            /\ pend[q].id_tries = MAX_ID_RETRY
            /\ pend[q].st = "freed"
            /\ pend[q].timer = "deleted"
            /\ q \notin tree
            /\ sent[q] = <<>>
            /\ cbs[q] = <<[c |-> NULL, status |-> NETEVENT_CLOSED, reply_info |-> NULL]>>

C9_Witness ==
    /\ pc.at = "idle"
    /\ \E q \in Queries : pend[q].end = "abort" /\ pend[q].id_tries = MAX_ID_RETRY
    /\ tree # {}

(* the number of ports of the family of an address *)
NumMax(addr) == IF addr.family = AF_INET6 THEN outnet.num_udp6 ELSE outnet.num_udp4

(* C10: a query to an address of a family without ports is dropped: its *)
(* pending is freed with its timer, nothing is sent, no callback called *)
C10_NoEgressDropped ==
    \A q \in Queries :
        (/\ outnet.st = "live"
         /\ pend[q].st \in {"live", "freed"}
         /\ pend[q].end # "abort"
         /\ NumMax(pend[q].addr) = 0)
        => /\ pend[q].st = "freed"
           /\ pend[q].timer = "deleted"
           /\ q \notin tree
           /\ sent[q] = <<>>
           /\ cbs[q] = <<>>

(* C11: when the send fails, the callback is called once with NETEVENT_CLOSED *)
(* while the pending is still whole; then the pending is freed: it is out of  *)
(* the tree, its timer was never set and is deleted, so that no datagram with *)
(* its key and no timer can call its callback again                           *)
C11_SendFailure ==
    \A q \in Queries :
        /\ (pc.at = "query_cb" /\ pc.q = q) =>
               /\ cbs[q] = <<[c |-> pend[q].c, status |-> NETEVENT_CLOSED,
                              reply_info |-> NULL]>>
               /\ pend[q].st = "live"
               /\ pend[q].armed = 0
               /\ pend[q].timer = "off"
        /\ pend[q].end = "closed" =>
               /\ Statuses(q) = <<NETEVENT_CLOSED>>
               /\ pend[q].st = "freed"
               /\ q \notin tree
               /\ rbtree_search(tree, pend, KeyOf(pend, q)) \in {NULL} \cup (tree \ {q})
               /\ pend[q].armed = 0
               /\ pend[q].timer = "deleted"
               /\ sent[q] = <<>>
               /\ CanReceive =>
                      \A c \in open :
                          udp_cb(Dispatcher, c, NETEVENT_NOERROR, LDNS_ID_SET(pend[q].id),
                                 [addr |-> pend[q].addr, addrlen |-> pend[q].addrlen]).d.cbs[q]
                              = cbs[q]

C11_Witness ==
    /\ CanReceive
    /\ \E q \in Queries :
           /\ pend[q].end = "closed"
           /\ pend[q].c \in open
           /\ rbtree_search(tree, pend, KeyOf(pend, q)) = NULL
           /\ tree # {}

(* C12: every call of a callback with NETEVENT_NOERROR has a reply_info that *)
(* is not NULL, and every call with NETEVENT_TIMEOUT or NETEVENT_CLOSED has  *)
(* the reply_info NULL                                                       *)
C12_CallbackArguments ==
    \A q \in Queries : \A i \in 1..Len(cbs[q]) :
        /\ cbs[q][i].status = NETEVENT_NOERROR => cbs[q][i].reply_info # NULL
        /\ cbs[q][i].status \in {NETEVENT_TIMEOUT, NETEVENT_CLOSED} =>
               cbs[q][i].reply_info = NULL

(* C13: the id in the first two bytes of a packet that pending_udp_query sent *)
(* is the id of its pending, also when the id was made anew after collisions; *)
(* while the pending is in the tree, the key that outnet_udp_cb makes of the  *)
(* packet and its destination finds this pending, and the datagram coming     *)
(* back on the comm point it was sent on is taken as its reply                *)
C13_IdRoundTrip ==
    \A q \in Queries : \A i \in 1..Len(sent[q]) :
        LET m == sent[q][i]
        IN  /\ LDNS_ID_WIRE(m.pkt) = pend[q].id
            /\ m.pkt = LDNS_ID_SET(pend[q].id)
            /\ m.to = [addrlen |-> pend[q].addrlen, addr |-> pend[q].addr]
            /\ q \in tree =>
                   /\ rbtree_search(tree, pend, [id |-> LDNS_ID_WIRE(m.pkt),
                                                addr |-> m.to.addr,
                                                addrlen |-> m.to.addrlen]) = q
                   /\ (CanReceive /\ m.c \in open) =>
                          LET r == udp_cb(Dispatcher, m.c, NETEVENT_NOERROR, m.pkt, m.to)
                          IN  r.res = "reply" /\ r.d.pc.q = q

C13_Witness ==
    /\ CanReceive
    /\ \E q \in tree :
           /\ Len(sent[q]) = 1
           /\ pend[q].id_tries >= 1
           /\ pend[q].id # random_id(R1)
           /\ sent[q][1].c \in open

(* the timer of q is set and the callback of q was not called *)
ArmedAndNotCalled(q) == pend[q].timer = "set" /\ cbs[q] = <<>>

(* C14, as stated: in every state, also while a callback runs, a pending is *)
(* in the tree exactly when its timer is set and its callback was not       *)
(* called                                                                   *)
C14_IndexIffArmed ==
    pc.at # "crashed" =>
        \A q \in Queries : q \in tree <=> ArmedAndNotCalled(q)

(* C14, amended: a pending that no handler is working on is in the tree      *)
(* exactly when its timer is set and its callback was not called; the        *)
(* pending that a handler is working on, its callback running, is still in   *)
(* the tree, with its timer not set and its callback called once             *)
C14_IndexIffArmedBetweenHandlers ==
    \A q \in Queries :
        /\ (pc.at = "idle" \/ pc.q # q) => (q \in tree <=> ArmedAndNotCalled(q))
        /\ (pc.at \in {"udp_cb", "timer_cb", "query_cb"} /\ pc.q = q) =>
               /\ q \in tree
               /\ pend[q].timer = "off"
               /\ Len(cbs[q]) = 1

C14_Witness ==
    /\ pc.at = "udp_cb"
    /\ pc.q \in tree
    /\ \E q \in tree : q # pc.q /\ ArmedAndNotCalled(q)

(* the comm points of the port array of the family of an address *)
PoolOf(addr) ==
    IF addr.family = AF_INET6
    THEN {outnet.udp6_ports[i] : i \in 0..(outnet.num_udp6 - 1)}
    ELSE {outnet.udp4_ports[i] : i \in 0..(outnet.num_udp4 - 1)}

(* C15: the comm point of every pending of the tree is one of the port array *)
(* of the family of its address: it is not NULL and not of the other family  *)
C15_SocketInPool ==
    \A q \in tree :
        /\ pend[q].c # NULL
        /\ pend[q].c \in PoolOf(pend[q].addr)

(* pending_delete frees q in this step *)
Destroyed(q) == pend[q].st # "freed" /\ pend'[q].st = "freed"

(* C16, as stated: when a pending was freed, by whatever caller of          *)
(* pending_delete, the lookup of its key finds nothing and its timer is off *)
(* the reactor                                                              *)
C16_DestroyedNotFound ==
    [][\A q \in Queries :
           Destroyed(q) =>
               /\ rbtree_search(tree', pend', KeyOf(pend', q)) = NULL
               /\ pend'[q].timer = "deleted"]_vars

(* C16, amended: a freed pending is not in the tree and its timer is off the *)
(* reactor; right after it was freed the lookup of its key finds nothing,    *)
(* but for the pending given up after MAX_ID_RETRY new ids, whose key can be *)
(* the key of another pending, which then stays in the tree and is found     *)
C16_DestroyedNotInTree ==
    [][\A q \in Queries :
           /\ pend'[q].st = "freed" =>
                  /\ q \notin tree'
                  /\ pend'[q].timer = "deleted"
           /\ Destroyed(q) =>
                  LET found == rbtree_search(tree', pend', KeyOf(pend', q))
                  IN  /\ found # q
                      /\ pend'[q].end # "abort" => found = NULL
                      /\ pend'[q].end = "abort" => found \in {NULL} \cup tree]_vars

C16_Witness ==
    /\ pc = [at |-> "query_cb", q |-> NULL]
    /\ \E q \in Queries :
           /\ pend[q].end = "abort"
           /\ rbtree_search(tree, pend, KeyOf(pend, q)) \in tree \ {q}

(* the components of a key in the order of the claim *)
LexKey(k) == <<k.id, k.addrlen, k.addr.family, k.addr.port>> \o k.addr.bytes

(* the order of two sequences of numbers by the first place where they differ *)
SeqCmp(s1, s2) ==
    LET n == IF Len(s1) < Len(s2) THEN Len(s1) ELSE Len(s2)
        diff == {i \in 1..n : s1[i] # s2[i]}
    IN  IF diff = {} THEN 0
        ELSE LET i == CHOOSE x \in diff : \A y \in diff : x <= y
             IN  IF s1[i] < s2[i] THEN -1 ELSE 1

IsInet(k) == k.addr.family \in {AF_INET, AF_INET6}

(* C17: pending_cmp orders the keys of ip4 and ip6 addresses by id, then     *)
(* addrlen, then family, then port, then the 4 or 16 address bytes; for all  *)
(* keys id, addrlen and family come first, the order is antisymmetric and    *)
(* transitive, and the result is 0 exactly when the keys agree on all five   *)
C17_PendingCmpOrder ==
    call.op = "pending_cmp" =>
        /\ (IsInet(call.k1) /\ IsInet(call.k2)) =>
               call.r12 = SeqCmp(LexKey(call.k1), LexKey(call.k2))
        /\ SubSeq(LexKey(call.k1), 1, 3) # SubSeq(LexKey(call.k2), 1, 3) =>
               call.r12 = SeqCmp(SubSeq(LexKey(call.k1), 1, 3), SubSeq(LexKey(call.k2), 1, 3))
        /\ call.r12 \in {-1, 0, 1}
        /\ call.r21 = 0 - call.r12
        /\ (call.r12 <= 0 /\ call.r23 <= 0) => call.r13 <= 0
        /\ (call.r12 <= 0 /\ call.r23 < 0) => call.r13 < 0
        /\ (call.r12 < 0 /\ call.r23 <= 0) => call.r13 < 0
        /\ call.r12 = 0 <=> SameKey(call.k1, call.k2)

C17_Witness ==
    /\ call.op = "pending_cmp"
    /\ call.k1.addr = A6.addr
    /\ call.k2.addr = A6b.addr
    /\ call.k3.addr = AXp.addr
    /\ call.k1.id = call.k2.id
    /\ call.r12 = -1
    /\ call.r23 = 1

(* pending_udp_query of q failed: no memory, no unused id, or the send failed *)
SubmitFailed(q) ==
    \/ pend[q].end \in {"nomem", "abort", "closed"}
    \/ (pc.at = "query_cb" /\ pc.q = q)

(* C18: the timer of a pending is set at most once, and only when the send *)
(* returned 1; when pending_udp_query failed the timer was never set, also *)
(* not while the callback with NETEVENT_CLOSED runs, and no callback with  *)
(* NETEVENT_TIMEOUT is called                                              *)
C18_SendBeforeArm ==
    \A q \in Queries :
        /\ pend[q].armed \in {0, 1}
        /\ pend[q].timer = "set" => pend[q].armed = 1
        /\ pend[q].armed = 1 => (Len(sent[q]) = 1 /\ ~SubmitFailed(q))
        /\ SubmitFailed(q) =>
               /\ pend[q].armed = 0
               /\ pend[q].timer # "set"
               /\ sent[q] = <<>>
               /\ \A i \in 1..Len(cbs[q]) : cbs[q][i].status = NETEVENT_CLOSED

C18_Witness ==
    \E q1 \in Queries, q2 \in Queries :
        /\ pend[q1].end = "closed"
        /\ pend[q1].c \in open
        /\ pend[q2].end = "timeout"
        /\ pend[q2].armed = 1

(* C19: the pending_udp_query that gives up after MAX_ID_RETRY new ids leaves *)
(* the tree and the pendings in it as they were: the pending it frees was     *)
(* never in the tree, and the pending with which it collided stays in it      *)
C19_AbortLeavesTree ==
    [][\A q \in Queries :
           (Destroyed(q) /\ pend'[q].end = "abort") =>
               /\ q \notin tree
               /\ tree' = tree
               /\ \A x \in tree : pend'[x] = pend[x]
               /\ \E x \in tree' : pend'[x].addr = pend'[q].addr]_vars

C19_Witness ==
    /\ pc.at = "idle"
    /\ \E q \in Queries, x \in tree :
           /\ pend[q].end = "abort"
           /\ SameKey(KeyOf(pend, x), KeyOf(pend, q))
           /\ pend[x].timer = "set"

(* q ended by a reply or by its timer: its callback was called once with *)
(* that status and it is out of the tree                                 *)
Completed(q) ==
    /\ pend[q].end \in {"ok", "timeout"}
    /\ q \notin tree
    /\ Statuses(q) \in {<<NETEVENT_NOERROR>>, <<NETEVENT_TIMEOUT>>}

(* the reactor does not leave the timer of q set for ever *)
TimerFires(q) == (pend[q].timer = "set") ~> (pend[q].timer # "set")

(* C20: when the reactor does not leave its timer set for ever, a pending    *)
(* that was sent and whose timer was set is completed in the end by a reply  *)
(* or by its timer, unless it is cancelled or the outside network is deleted *)
(* first                                                                     *)
C20_EventuallyCompleted ==
    \A q \in Queries :
        TimerFires(q) =>
            ((q \in tree /\ pend[q].armed = 1)
                ~> (Completed(q) \/ pend[q].end \in {"cancel", "shutdown"}))

C20_Witness ==
    /\ pc.at = "idle"
    /\ outnet.st = "live"
    /\ tree = {}
    /\ \E q1 \in Queries, q2 \in Queries :
           /\ Completed(q1) /\ pend[q1].end = "ok"
           /\ Completed(q2) /\ pend[q2].end = "timeout"

====
